---------------------------- MODULE Spec2Model ----------------------------
(***************************************************************************)
(* Appointment scheduling of the PawPal backend (Express routes over       *)
(* Firestore): create, status change and reschedule of appointments,       *)
(* with the conflict query each of them runs against the appointments      *)
(* collection, and the availability query of a veterinarian's day.         *)
(*                                                                         *)
(* Time is counted in minutes of one day (10:00 is 600); the handlers      *)
(* work in milliseconds and convert a duration with duration * 60000,      *)
(* which is the same arithmetic on a finer scale.                          *)
(* The free-text fields (type, reason, notes, statusReason,                *)
(* rescheduleReason) are carried through by the handlers without being     *)
(* read again; only their presence in a create request is modelled.        *)
(* The server runs in UTC, so that the date of a request and the local     *)
(* hours set on it (setHours) belong to the same day.                      *)
(* In Spec and SpecRace every call on Firestore succeeds; SpecFaulty adds  *)
(* the runs in which the write of the notification is rejected.            *)
(***************************************************************************)
EXTENDS Integers, Sequences, FiniteSets, Bags, TLC

(***************************************************************************)
(* Bounds of the model.                                                    *)
(***************************************************************************)
\* appointments ever created
MaxAppts == 2
\* requests that reach their notification write (each writes one document,
\* or one line of the error log when the write is rejected)
MaxNotifs == 3
\* the clock stops advancing once it has reached MaxNow
MaxNow == 600
\* requests in flight at the same time
MaxInFlight == 2
\* requests whose notification write is rejected
MaxErrors == 1

(***************************************************************************)
(* Values.                                                                 *)
(***************************************************************************)
\* a numeric field the request body does not carry (JavaScript undefined)
NoValue == -1
\* a timestamp field the document does not hold
Unset == -2
\* `duration = 30` in the destructuring of req.body
DefaultDuration == 30

\* users/{uid}: one pet owner, two approved veterinarians, and one user
\* whose application as a veterinarian is pending (POST /apply has set the
\* role to veterinarian and vetApplicationStatus to pending)
Users == {"o1", "v1", "v2", "v3"}
\* the users collection at the start; onUserCreate sets isActive to true
InitialUsers ==
  [u \in Users |->
     IF u = "o1"
       THEN [role |-> "pet_owner", vetApplicationStatus |-> "none",
             isActive |-> TRUE]
     ELSE IF u = "v3"
       THEN [role |-> "veterinarian", vetApplicationStatus |-> "pending",
             isActive |-> TRUE]
       ELSE [role |-> "veterinarian", vetApplicationStatus |-> "approved",
             isActive |-> TRUE]]

\* the users whose requests are tried; the requests of the applicant v3 are
\* answered as those of any other user who is no party to an appointment
Callers == {"o1", "v1", "v2"}

\* pets/{petId}: the pet of o1; the route that registers a pet sets isActive
\* to true
Pets == {"p1"}
InitialPets ==
  [p \in Pets |-> [ownerId |-> "o1", name |-> "Rex", isActive |-> TRUE]]

\* midnight of the days a request can name, in minutes from today's midnight
Yesterday == -1440
Today == 0
Tomorrow == 1440

\* requested start times: 10:00, 10:15, 10:30
Times == {600, 615, 630}
\* requested durations: none given (the default of 30 applies), and 0, which
\* the create handler stores as it stores any other value
Durations == {NoValue, 0}

AppointmentIds == 1..MaxAppts

VARIABLES
  appointments,   \* the appointments collection: id -> document
  notifications,  \* the notifications collection, a bag of documents
  now,            \* the server clock
  reqs,           \* the requests in flight, each between two of its awaits
  errors,         \* the lines written by console.error in the catch blocks
  users,          \* the users collection: uid -> document
  pets,           \* the pets collection: petId -> document
  events          \* the change events of the appointments collection that
                  \* Firestore has not yet delivered to the triggers, a bag

vars == <<appointments, notifications, now, reqs, errors, users, pets, events>>

\* what the appointment routes never write
backend == <<users, pets, events>>

(***************************************************************************)
(* Firestore queries.                                                      *)
(***************************************************************************)
\* the conflict query without its filter on the status
ConflictQueryAnyStatus(A, veterinarianId, startTime, endTime) ==
  {i \in DOMAIN A :
     /\ A[i].veterinarianId = veterinarianId
     /\ A[i].dateTime >= startTime
     /\ A[i].dateTime < endTime}

\* .where('veterinarianId','==',v).where('status','in',['confirmed','pending'])
\* .where('dateTime','>=',startTime).where('dateTime','<',endTime)
ConflictQuery(A, veterinarianId, startTime, endTime) ==
  {i \in DOMAIN A :
     /\ A[i].veterinarianId = veterinarianId
     /\ A[i].status \in {"confirmed", "pending"}
     /\ A[i].dateTime >= startTime
     /\ A[i].dateTime < endTime}

\* the duration of a create request after the destructuring default
EffectiveDuration(duration) ==
  IF duration = NoValue THEN DefaultDuration ELSE duration

\* new Date(start.getTime() + duration * 60000)
EndTime(startTime, duration) == startTime + duration

\* what a handler has done when it returns: the response it sent
\* (res.status(...).json(...)) and the two collections as it leaves them
Result(status, code, A, N) ==
  [status |-> status, code |-> code, appointments |-> A, notifications |-> N]

Notification(userId, type, appointmentId) ==
  [userId |-> userId, type |-> type, appointmentId |-> appointmentId]

AddNotification(N, n) == N (+) SetToBag({n})

\* the requests that have reached their notification write so far
Notified == BagCardinality(notifications) + errors

(***************************************************************************)
(* POST /appointments                                                      *)
(***************************************************************************)
GoodBody(v, t, d) ==
  [petId |-> "p1", veterinarianId |-> v, dateTime |-> t,
   type |-> "checkup", reason |-> "r", duration |-> d]

\* the create requests tried, caller and body: the well-formed requests of
\* the pet's owner (to v1 at each time today, at 10:00 for an hour and at
\* 09:30 tomorrow, to v2 at 10:00), and one request per defect
CreateRequests ==
  {<<"o1", GoodBody("v1", t, d)>> : t \in Times, d \in Durations}
    \cup {<<"o1", GoodBody("v2", 600, NoValue)>>,
          <<"o1", GoodBody("v1", Tomorrow + 570, NoValue)>>,
          <<"o1", GoodBody("v3", 600, NoValue)>>,
          <<"o1", GoodBody("v1", 600, 60)>>,
          <<"o1", [GoodBody("v1", 600, NoValue) EXCEPT !.petId = ""]>>,
          <<"o1", [GoodBody("v1", 600, NoValue) EXCEPT !.petId = "p0"]>>,
          <<"v2", GoodBody("v1", 600, NoValue)>>,
          <<"o1", [GoodBody("v1", 600, NoValue) EXCEPT !.veterinarianId = ""]>>,
          <<"o1", [GoodBody("v1", 600, NoValue) EXCEPT !.veterinarianId = "v0"]>>,
          <<"o1", GoodBody("o1", 600, NoValue)>>,
          <<"o1", [GoodBody("v1", 600, NoValue) EXCEPT !.dateTime = NoValue]>>,
          <<"o1", [GoodBody("v1", 600, NoValue) EXCEPT !.type = ""]>>,
          <<"o1", [GoodBody("v1", 600, NoValue) EXCEPT !.reason = ""]>>}

\* the checks of the create handler with a date check that lets the current
\* instant through
CreateValidationFromNow(uid, body, clock) ==
  IF \/ body.petId = "" \/ body.veterinarianId = "" \/ body.dateTime = NoValue
     \/ body.type = "" \/ body.reason = ""
    THEN "MISSING_FIELDS"
  ELSE IF body.petId \notin DOMAIN pets \/ pets[body.petId].ownerId # uid
    THEN "PET_ACCESS_DENIED"
  ELSE IF \/ body.veterinarianId \notin DOMAIN users
          \/ users[body.veterinarianId].role # "veterinarian"
          \/ users[body.veterinarianId].vetApplicationStatus # "approved"
    THEN "VET_NOT_AVAILABLE"
  ELSE IF body.dateTime < clock
    THEN "INVALID_DATE"
  ELSE "ok"

\* the checks of the create handler with a veterinarian check that does not
\* read the application status
CreateValidationAnyVet(uid, body, clock) ==
  IF \/ body.petId = "" \/ body.veterinarianId = "" \/ body.dateTime = NoValue
     \/ body.type = "" \/ body.reason = ""
    THEN "MISSING_FIELDS"
  ELSE IF body.petId \notin DOMAIN pets \/ pets[body.petId].ownerId # uid
    THEN "PET_ACCESS_DENIED"
  ELSE IF \/ body.veterinarianId \notin DOMAIN users
          \/ users[body.veterinarianId].role # "veterinarian"
    THEN "VET_NOT_AVAILABLE"
  ELSE IF body.dateTime <= clock
    THEN "INVALID_DATE"
  ELSE "ok"

\* the checks of the handler that read no appointment: "ok" or the error code
CreateValidation(uid, body, clock) ==
  IF \/ body.petId = "" \/ body.veterinarianId = "" \/ body.dateTime = NoValue
     \/ body.type = "" \/ body.reason = ""
    THEN "MISSING_FIELDS"
  ELSE IF body.petId \notin DOMAIN pets \/ pets[body.petId].ownerId # uid
    THEN "PET_ACCESS_DENIED"
  ELSE IF \/ body.veterinarianId \notin DOMAIN users
          \/ users[body.veterinarianId].role # "veterinarian"
          \/ users[body.veterinarianId].vetApplicationStatus # "approved"
    THEN "VET_NOT_AVAILABLE"
  ELSE IF body.dateTime <= clock
    THEN "INVALID_DATE"
  ELSE "ok"

\* the conflict query of the create handler
CreateConflicts(A, body) ==
  ConflictQuery(A, body.veterinarianId, body.dateTime,
                EndTime(body.dateTime, EffectiveDuration(body.duration)))

\* the outcome of the checks of the create handler, in their order
CreateOutcome(A, uid, body, clock) ==
  IF CreateValidation(uid, body, clock) # "ok"
    THEN CreateValidation(uid, body, clock)
  ELSE IF CreateConflicts(A, body) # {} THEN "TIME_CONFLICT"
  ELSE "ok"

ErrorStatus(code) ==
  CASE code = "PET_ACCESS_DENIED" -> 403
    [] code = "VET_ONLY_ACTION" -> 403
    [] code = "ACCESS_DENIED" -> 403
    [] code = "APPOINTMENT_NOT_FOUND" -> 404
    [] code = "VET_NOT_FOUND" -> 404
    [] code = "USER_NOT_FOUND" -> 404
    [] code = "PET_NOT_FOUND" -> 404
    [] code = "CANNOT_DEACTIVATE_ADMIN" -> 403
    [] code = "DELETE_ACCOUNT_FAILED" -> 500
    [] code = "TIME_CONFLICT" -> 409
    [] OTHER -> 400

\* appointmentData of the create handler
NewAppointment(uid, body, clock) ==
  [ownerId |-> uid,
   petId |-> body.petId,
   veterinarianId |-> body.veterinarianId,
   dateTime |-> body.dateTime,
   duration |-> EffectiveDuration(body.duration),
   status |-> "pending",
   createdAt |-> clock,
   updatedAt |-> clock,
   confirmedAt |-> Unset,
   completedAt |-> Unset,
   cancelledAt |-> Unset,
   rescheduledAt |-> Unset]

\* db.collection('appointments').add(...): the document gets a fresh id
NextId(A) == Len(A) + 1

\* the create handler run from store A, N at time clock
CreateResult(A, N, uid, body, clock) ==
  LET outcome == CreateOutcome(A, uid, body, clock)
  IN IF outcome # "ok"
       THEN Result(ErrorStatus(outcome), outcome, A, N)
       ELSE Result(201, "ok",
                   Append(A, NewAppointment(uid, body, clock)),
                   AddNotification(N,
                     Notification(body.veterinarianId, "new_appointment",
                                  NextId(A))))

Create(uid, body) ==
  LET res == CreateResult(appointments, notifications, uid, body, now)
  IN /\ res.status = 201
          => /\ NextId(appointments) <= MaxAppts
             /\ Notified < MaxNotifs
     /\ appointments' = res.appointments
     /\ notifications' = res.notifications
     /\ UNCHANGED <<now, reqs, errors, backend>>

(***************************************************************************)
(* PATCH /appointments/:appointmentId/status                               *)
(***************************************************************************)
\* the list of the handler with pending added to it
validStatusesWithPending ==
  {"confirmed", "cancelled", "completed", "no_show", "pending"}

validStatuses == {"confirmed", "cancelled", "completed", "no_show"}
\* the status values tried: the valid ones, pending, and one unknown
StatusInputs == validStatuses \cup {"pending", "archived"}

\* the permission check with the rule for cancelling applied to every status
StatusPermissionOfParties(appointmentData, uid, status) ==
  IF appointmentData.ownerId # uid /\ appointmentData.veterinarianId # uid
    THEN "ACCESS_DENIED" ELSE "ok"

\* "Check permissions based on status change": "ok" or the error code
StatusPermission(appointmentData, uid, status) ==
  IF status \in {"confirmed", "completed", "no_show"}
    THEN IF appointmentData.veterinarianId # uid
           THEN "VET_ONLY_ACTION" ELSE "ok"
  ELSE IF status = "cancelled"
    THEN IF appointmentData.ownerId # uid /\ appointmentData.veterinarianId # uid
           THEN "ACCESS_DENIED" ELSE "ok"
  ELSE "ok"

\* the outcome of the checks of the status handler, in their order
StatusOutcome(A, uid, appointmentId, status) ==
  IF status \notin validStatuses THEN "INVALID_STATUS"
  ELSE IF appointmentId \notin DOMAIN A THEN "APPOINTMENT_NOT_FOUND"
  ELSE StatusPermission(A[appointmentId], uid, status)

\* appointmentRef.update(updateData)
StatusUpdate(doc, status, clock) ==
  [doc EXCEPT
     !.status = status,
     !.updatedAt = clock,
     !.confirmedAt = IF status = "confirmed" THEN clock ELSE @,
     !.completedAt = IF status = "completed" THEN clock ELSE @,
     !.cancelledAt = IF status = "cancelled" THEN clock ELSE @]

\* "Create notification for the other party"
NotificationUserId(appointmentData, uid) ==
  IF appointmentData.veterinarianId = uid
    THEN appointmentData.ownerId
    ELSE appointmentData.veterinarianId

\* the status handler with its update moved before the permission check
StatusResultUpdatingFirst(A, N, uid, appointmentId, status, clock) ==
  LET outcome == StatusOutcome(A, uid, appointmentId, status)
  IN IF outcome \in {"INVALID_STATUS", "APPOINTMENT_NOT_FOUND"}
       THEN Result(ErrorStatus(outcome), outcome, A, N)
     ELSE IF outcome # "ok"
       THEN Result(ErrorStatus(outcome), outcome,
                   [A EXCEPT ![appointmentId] = StatusUpdate(@, status, clock)],
                   N)
       ELSE Result(200, "ok",
                   [A EXCEPT ![appointmentId] = StatusUpdate(@, status, clock)],
                   AddNotification(N,
                     Notification(NotificationUserId(A[appointmentId], uid),
                                  "appointment_status_change", appointmentId)))

\* the status handler run from store A, N at time clock
StatusResult(A, N, uid, appointmentId, status, clock) ==
  LET outcome == StatusOutcome(A, uid, appointmentId, status)
  IN IF outcome # "ok"
       THEN Result(ErrorStatus(outcome), outcome, A, N)
       ELSE Result(200, "ok",
                   [A EXCEPT ![appointmentId] = StatusUpdate(@, status, clock)],
                   AddNotification(N,
                     Notification(NotificationUserId(A[appointmentId], uid),
                                  "appointment_status_change", appointmentId)))

UpdateStatus(uid, appointmentId, status) ==
  LET res == StatusResult(appointments, notifications, uid, appointmentId,
                          status, now)
  IN /\ res.status = 200 => Notified < MaxNotifs
     /\ appointments' = res.appointments
     /\ notifications' = res.notifications
     /\ UNCHANGED <<now, reqs, errors, backend>>

(***************************************************************************)
(* PATCH /appointments/:appointmentId/reschedule                           *)
(***************************************************************************)
\* the access check deciding by the caller's role instead of their identity
RescheduleAccessByRole(appointmentData, uid) ==
  appointmentData.ownerId = uid \/ users[uid].role = "veterinarian"

\* "Check access rights"
RescheduleAccess(appointmentData, uid) ==
  appointmentData.ownerId = uid \/ appointmentData.veterinarianId = uid

\* the conflict query of the reschedule handler over the default duration
RescheduleConflictsDefault(A, appointmentData, newDateTime) ==
  ConflictQuery(A, appointmentData.veterinarianId, newDateTime,
                EndTime(newDateTime, DefaultDuration))

\* the conflict query of the reschedule handler, over the stored duration
RescheduleConflicts(A, appointmentData, newDateTime) ==
  ConflictQuery(A, appointmentData.veterinarianId, newDateTime,
                EndTime(newDateTime, appointmentData.duration))

\* conflictingAppointments.docs.some(doc => doc.id !== appointmentId)
hasConflict(conflictingAppointments, appointmentId) ==
  \E id \in conflictingAppointments : id # appointmentId

\* the checks of the handler before its conflict query
RescheduleValidation(A, uid, appointmentId, newDateTime, clock) ==
  IF newDateTime = NoValue THEN "MISSING_DATETIME"
  ELSE IF appointmentId \notin DOMAIN A THEN "APPOINTMENT_NOT_FOUND"
  ELSE IF ~RescheduleAccess(A[appointmentId], uid) THEN "ACCESS_DENIED"
  ELSE IF newDateTime <= clock THEN "INVALID_DATE"
  ELSE "ok"

\* the outcome of the checks of the reschedule handler, in their order
RescheduleOutcome(A, uid, appointmentId, newDateTime, clock) ==
  IF RescheduleValidation(A, uid, appointmentId, newDateTime, clock) # "ok"
    THEN RescheduleValidation(A, uid, appointmentId, newDateTime, clock)
  ELSE IF hasConflict(RescheduleConflicts(A, A[appointmentId], newDateTime),
                      appointmentId)
    THEN "TIME_CONFLICT"
  ELSE "ok"

\* the update of a reschedule that also clears the confirmation
RescheduleUpdateClearing(doc, newDateTime, clock) ==
  [doc EXCEPT
     !.dateTime = newDateTime,
     !.status = "pending",
     !.rescheduledAt = clock,
     !.updatedAt = clock,
     !.confirmedAt = Unset]

\* appointmentRef.update({dateTime, status: 'pending', rescheduledAt, ...})
RescheduleUpdate(doc, newDateTime, clock) ==
  [doc EXCEPT
     !.dateTime = newDateTime,
     !.status = "pending",
     !.rescheduledAt = clock,
     !.updatedAt = clock]

\* the reschedule handler run from store A, N at time clock
RescheduleResult(A, N, uid, appointmentId, newDateTime, clock) ==
  LET outcome == RescheduleOutcome(A, uid, appointmentId, newDateTime, clock)
  IN IF outcome # "ok"
       THEN Result(ErrorStatus(outcome), outcome, A, N)
       ELSE Result(200, "ok",
                   [A EXCEPT
                      ![appointmentId] = RescheduleUpdate(@, newDateTime, clock)],
                   AddNotification(N,
                     Notification(NotificationUserId(A[appointmentId], uid),
                                  "appointment_rescheduled", appointmentId)))

Reschedule(uid, appointmentId, newDateTime) ==
  LET res == RescheduleResult(appointments, notifications, uid, appointmentId,
                              newDateTime, now)
  IN /\ res.status = 200 => Notified < MaxNotifs
     /\ appointments' = res.appointments
     /\ notifications' = res.notifications
     /\ UNCHANGED <<now, reqs, errors, backend>>

(***************************************************************************)
(* GET /appointments/availability/:veterinarianId?date=YYYY-MM-DD          *)
(***************************************************************************)
\* the dates tried: none, yesterday, today, tomorrow (each as its midnight)
Dates == {NoValue, Yesterday, Today, Tomorrow}
\* the veterinarianId values tried: every user, and an id of no user
VetIds == Users \cup {"v0"}

\* setHours(9, 0, 0, 0) and setHours(17, 0, 0, 0), in minutes of the day
WorkStart == 540
WorkEnd == 1020
\* time.setMinutes(time.getMinutes() + 30)
SlotMinutes == 30
DayMinutes == 1440

\* new Date().setHours(0, 0, 0, 0): midnight of the current day
DayStartOf(clock) == clock - (clock % DayMinutes)

\* the checks of the handler, in their order: "ok" or the error code
AvailabilityValidation(veterinarianId, date, clock) ==
  IF date = NoValue THEN "MISSING_DATE"
  ELSE IF date < DayStartOf(clock) THEN "INVALID_DATE"
  ELSE IF \/ veterinarianId \notin DOMAIN users
          \/ users[veterinarianId].role # "veterinarian"
    THEN "VET_NOT_FOUND"
  ELSE "ok"

\* .where('veterinarianId','==',v).where('status','in',['confirmed','pending'])
\* .where('dateTime','>=',dayStart).where('dateTime','<=',dayEnd)
DayQuery(A, veterinarianId, dayStart, dayEnd) ==
  {i \in DOMAIN A :
     /\ A[i].veterinarianId = veterinarianId
     /\ A[i].status \in {"confirmed", "pending"}
     /\ A[i].dateTime >= dayStart
     /\ A[i].dateTime <= dayEnd}

\* the start and duration of the day's bookings; dayEnd is 23:59:59.999
bookedSlots(A, veterinarianId, date) ==
  {[start |-> A[i].dateTime, duration |-> A[i].duration] :
     i \in DayQuery(A, veterinarianId, date, date + DayMinutes - 1)}

\* the test of a slot against the bookings that lets the booking's own start
\* through
isBookedAfterStart(booked, slotTime) ==
  \E b \in booked : slotTime > b.start /\ slotTime < b.start + b.duration

\* the test of a slot against the bookings that gives every booking the
\* length of a slot
isBookedForOneSlot(booked, slotTime) ==
  \E b \in booked : slotTime >= b.start /\ slotTime < b.start + SlotMinutes

\* bookedSlots.some(booked => slotTime >= bookedStart && slotTime < bookedEnd)
isBooked(booked, slotTime) ==
  \E b \in booked : slotTime >= b.start /\ slotTime < b.start + b.duration

\* the test for a past slot that lets the current instant through
InPastStrictly(slotTime, clock) == slotTime < clock

\* "Skip if slot is in the past": slotTime <= new Date()
InPast(slotTime, clock) == slotTime <= clock

\* the values of `time` in the loop from workStart while time < workEnd
SlotTimes(date) ==
  [k \in 1..((WorkEnd - WorkStart + SlotMinutes - 1) \div SlotMinutes) |->
     date + WorkStart + SlotMinutes * (k - 1)]

\* the slots pushed by the loop, in its order
availableSlots(A, veterinarianId, date, clock) ==
  LET booked == bookedSlots(A, veterinarianId, date)
      Offered(slotTime) == ~InPast(slotTime, clock) /\ ~isBooked(booked, slotTime)
  IN SelectSeq(SlotTimes(date), Offered)

\* the availability handler run on store A at time clock: its response
AvailabilityResult(A, veterinarianId, date, clock) ==
  LET outcome == AvailabilityValidation(veterinarianId, date, clock)
  IN IF outcome # "ok"
       THEN [status |-> ErrorStatus(outcome), code |-> outcome,
             availableSlots |-> <<>>]
       ELSE [status |-> 200, code |-> "ok",
             availableSlots |-> availableSlots(A, veterinarianId, date, clock)]

\* the handler reads and writes nothing
GetAvailability(veterinarianId, date) ==
  /\ AvailabilityResult(appointments, veterinarianId, date, now).status
       \in {200, 400, 404}
  /\ UNCHANGED vars

(***************************************************************************)
(* The same handlers, one await at a time.  A handler reads (the document  *)
(* and the conflict query), then writes the appointment, then writes the   *)
(* notification and responds; each of the three is a separate call on      *)
(* Firestore, and other requests run between them.  The documents a        *)
(* handler reads before its conflict query hold only fields that no        *)
(* request changes (ownerId, veterinarianId, duration), so those reads     *)
(* are taken together with the query.                                      *)
(***************************************************************************)
Slots == 1..MaxInFlight

Idle == [pc |-> "idle", op |-> "none", uid |-> "", appointmentId |-> 0,
         veterinarianId |-> "", dateTime |-> NoValue, duration |-> NoValue,
         raced |-> {}]

\* the slots whose request has run its conflict query and not yet written
Queried == {q \in Slots : reqs[q].pc = "write"}

\* a request takes the first free slot; it is admitted while the notification
\* it will write still fits under MaxNotifs
Free(r) ==
  /\ reqs[r].pc = "idle"
  /\ \A q \in Slots : q < r => reqs[q].pc # "idle"

Admitted ==
  Cardinality({q \in Slots : reqs[q].pc # "idle"}) + Notified < MaxNotifs

\* slot r has run its query: it and every request in Queried now overlap
Enter(r, request) ==
  [q \in Slots |->
     IF q = r THEN [request EXCEPT !.pc = "write", !.raced = Queried]
     ELSE IF q \in Queried THEN [reqs[q] EXCEPT !.raced = @ \cup {r}]
     ELSE reqs[q]]

\* create, up to and including its conflict query
CreateQuery(r, uid, body) ==
  LET outcome == CreateOutcome(appointments, uid, body, now)
  IN /\ Free(r)
     /\ IF outcome # "ok"
          THEN UNCHANGED reqs
          ELSE /\ Admitted
               /\ reqs' = Enter(r, [Idle EXCEPT
                                      !.op = "create",
                                      !.uid = uid,
                                      !.veterinarianId = body.veterinarianId,
                                      !.dateTime = body.dateTime,
                                      !.duration = EffectiveDuration(body.duration)])
     /\ UNCHANGED <<appointments, notifications, now, errors, backend>>

\* create: db.collection('appointments').add(appointmentData)
CreateWrite(r) ==
  /\ reqs[r].pc = "write"
  /\ reqs[r].op = "create"
  /\ NextId(appointments) <= MaxAppts
  /\ appointments' =
       Append(appointments,
              NewAppointment(reqs[r].uid,
                             GoodBody(reqs[r].veterinarianId, reqs[r].dateTime,
                                      reqs[r].duration),
                             now))
  /\ reqs' = [reqs EXCEPT ![r].pc = "notify",
                          ![r].appointmentId = NextId(appointments)]
  /\ UNCHANGED <<notifications, now, errors, backend>>

\* reschedule, up to and including its conflict query
RescheduleQuery(r, uid, appointmentId, newDateTime) ==
  LET outcome ==
        RescheduleOutcome(appointments, uid, appointmentId, newDateTime, now)
  IN /\ Free(r)
     /\ IF outcome # "ok"
          THEN UNCHANGED reqs
          ELSE /\ Admitted
               /\ reqs' = Enter(r, [Idle EXCEPT
                                      !.op = "reschedule",
                                      !.uid = uid,
                                      !.appointmentId = appointmentId,
                                      !.veterinarianId =
                                         appointments[appointmentId].veterinarianId,
                                      !.dateTime = newDateTime,
                                      !.duration =
                                         appointments[appointmentId].duration])
     /\ UNCHANGED <<appointments, notifications, now, errors, backend>>

\* reschedule: appointmentRef.update({dateTime: startTime, status: 'pending', ...})
RescheduleWrite(r) ==
  /\ reqs[r].pc = "write"
  /\ reqs[r].op = "reschedule"
  /\ appointments' =
       [appointments EXCEPT
          ![reqs[r].appointmentId] = RescheduleUpdate(@, reqs[r].dateTime, now)]
  /\ reqs' = [reqs EXCEPT ![r].pc = "notify"]
  /\ UNCHANGED <<notifications, now, errors, backend>>

\* db.collection('notifications').add(...), then res.status(201 or 200)
NotifyAndRespond(r) ==
  /\ reqs[r].pc = "notify"
  /\ notifications' =
       AddNotification(notifications,
         IF reqs[r].op = "create"
           THEN Notification(reqs[r].veterinarianId, "new_appointment",
                             reqs[r].appointmentId)
           ELSE Notification(
                  NotificationUserId(appointments[reqs[r].appointmentId],
                                     reqs[r].uid),
                  "appointment_rescheduled", reqs[r].appointmentId))
  /\ reqs' = [q \in Slots |->
                IF q = r THEN Idle ELSE [reqs[q] EXCEPT !.raced = @ \ {r}]]
  /\ UNCHANGED <<appointments, now, errors, backend>>

(***************************************************************************)
(* The handlers when db.collection('notifications').add(...) is rejected.  *)
(* The call is awaited inside the handler's try block, after the write of  *)
(* the appointment: the rejection is caught, logged with console.error     *)
(* and answered with 500.  The write of the appointment is not undone.     *)
(***************************************************************************)
CreateNotificationFails(A, N, uid, body, clock) ==
  LET outcome == CreateOutcome(A, uid, body, clock)
  IN IF outcome # "ok"
       THEN Result(ErrorStatus(outcome), outcome, A, N)
       ELSE Result(500, "CREATE_APPOINTMENT_FAILED",
                   Append(A, NewAppointment(uid, body, clock)), N)

StatusNotificationFails(A, N, uid, appointmentId, status, clock) ==
  LET outcome == StatusOutcome(A, uid, appointmentId, status)
  IN IF outcome # "ok"
       THEN Result(ErrorStatus(outcome), outcome, A, N)
       ELSE Result(500, "UPDATE_STATUS_FAILED",
                   [A EXCEPT ![appointmentId] = StatusUpdate(@, status, clock)],
                   N)

RescheduleNotificationFails(A, N, uid, appointmentId, newDateTime, clock) ==
  LET outcome == RescheduleOutcome(A, uid, appointmentId, newDateTime, clock)
  IN IF outcome # "ok"
       THEN Result(ErrorStatus(outcome), outcome, A, N)
       ELSE Result(500, "RESCHEDULE_FAILED",
                   [A EXCEPT
                      ![appointmentId] = RescheduleUpdate(@, newDateTime, clock)],
                   N)

\* a request that reaches its notification write, which is rejected
CreateFaulty(uid, body) ==
  LET res == CreateNotificationFails(appointments, notifications, uid, body, now)
  IN /\ res.status = 500
     /\ errors < MaxErrors
     /\ Notified < MaxNotifs
     /\ NextId(appointments) <= MaxAppts
     /\ appointments' = res.appointments
     /\ notifications' = res.notifications
     /\ errors' = errors + 1
     /\ UNCHANGED <<now, reqs, backend>>

UpdateStatusFaulty(uid, appointmentId, status) ==
  LET res == StatusNotificationFails(appointments, notifications, uid,
                                     appointmentId, status, now)
  IN /\ res.status = 500
     /\ errors < MaxErrors
     /\ Notified < MaxNotifs
     /\ appointments' = res.appointments
     /\ notifications' = res.notifications
     /\ errors' = errors + 1
     /\ UNCHANGED <<now, reqs, backend>>

RescheduleFaulty(uid, appointmentId, newDateTime) ==
  LET res == RescheduleNotificationFails(appointments, notifications, uid,
                                         appointmentId, newDateTime, now)
  IN /\ res.status = 500
     /\ errors < MaxErrors
     /\ Notified < MaxNotifs
     /\ appointments' = res.appointments
     /\ notifications' = res.notifications
     /\ errors' = errors + 1
     /\ UNCHANGED <<now, reqs, backend>>

(***************************************************************************)
(* PATCH /admin/users/:userId/status, by a caller who has passed           *)
(* verifyToken and verifyAdmin.  The handler updates the user document     *)
(* and then, when it deactivates, cancels the user's pending and confirmed *)
(* appointments in one batch; it writes no notification.                   *)
(***************************************************************************)
\* the userId values tried: the owner, a veterinarian, and an id of no user
StatusTargets == {"o1", "v1", "u0"}
\* the isActive values tried, each with its typeof: both booleans, and a
\* body without the field
IsActiveInputs ==
  {[typeof |-> "boolean", value |-> TRUE],
   [typeof |-> "boolean", value |-> FALSE],
   [typeof |-> "undefined", value |-> FALSE]}

\* the checks of the handler, in their order: "ok" or the error code
UserStatusOutcome(U, userId, isActive) ==
  IF isActive.typeof # "boolean" THEN "INVALID_STATUS"
  ELSE IF userId \notin DOMAIN U THEN "USER_NOT_FOUND"
  ELSE IF U[userId].role = "admin" /\ ~isActive.value
    THEN "CANNOT_DEACTIVATE_ADMIN"
  ELSE "ok"

\* the update of the batch without its timestamp
DeactivationUpdateOfStatus(doc, clock) ==
  [doc EXCEPT !.status = "cancelled"]

\* batch.update(doc.ref, {status: 'cancelled', statusReason, cancelledAt})
DeactivationUpdate(doc, clock) ==
  [doc EXCEPT !.status = "cancelled", !.cancelledAt = clock]

\* the appointments the two queries of the handler select: those of the
\* user as owner and, for a veterinarian, those as veterinarian, with
\* status pending or confirmed
DeactivationQuery(A, U, userId) ==
  {i \in DOMAIN A :
     /\ A[i].status \in {"pending", "confirmed"}
     /\ \/ A[i].ownerId = userId
        \/ U[userId].role = "veterinarian" /\ A[i].veterinarianId = userId}

\* the handler run from the stores A, U at time clock: its response and the
\* two collections as it leaves them
UserStatusResult(A, U, userId, isActive, clock) ==
  LET outcome == UserStatusOutcome(U, userId, isActive)
  IN IF outcome # "ok"
       THEN [status |-> ErrorStatus(outcome), code |-> outcome,
             appointments |-> A, users |-> U]
       ELSE [status |-> 200, code |-> "ok",
             appointments |->
               IF isActive.value THEN A
               ELSE [i \in DOMAIN A |->
                       IF i \in DeactivationQuery(A, U, userId)
                         THEN DeactivationUpdate(A[i], clock) ELSE A[i]],
             users |-> [U EXCEPT ![userId].isActive = isActive.value]]

UpdateUserStatus(userId, isActive) ==
  LET res == UserStatusResult(appointments, users, userId, isActive, now)
  IN /\ appointments' = res.appointments
     /\ users' = res.users
     /\ UNCHANGED <<notifications, now, reqs, errors, pets, events>>

(***************************************************************************)
(* DELETE /auth/account and POST /auth/recover                             *)
(***************************************************************************)
\* the callers of the account and pet routes tried: the owner and a
\* veterinarian
AccountCallers == {"o1", "v1"}
\* the confirmation values tried
Confirmations == {"DELETE_MY_ACCOUNT", ""}

\* the checks of the delete handler, in their order; the update of a user
\* document that does not exist is rejected by Firestore and caught
DeleteAccountOutcome(A, U, uid, confirmation) ==
  IF confirmation # "DELETE_MY_ACCOUNT" THEN "MISSING_CONFIRMATION"
  ELSE IF \E i \in DOMAIN A :
            A[i].ownerId = uid /\ A[i].status \in {"confirmed", "pending"}
    THEN "ACTIVE_APPOINTMENTS_EXIST"
  ELSE IF uid \notin DOMAIN U THEN "DELETE_ACCOUNT_FAILED"
  ELSE "ok"

\* "Mark user as inactive instead of deleting immediately"
DeleteAccountResult(A, U, uid, confirmation) ==
  LET outcome == DeleteAccountOutcome(A, U, uid, confirmation)
  IN IF outcome # "ok"
       THEN [status |-> ErrorStatus(outcome), code |-> outcome, users |-> U]
       ELSE [status |-> 200, code |-> "ok",
             users |-> [U EXCEPT ![uid].isActive = FALSE]]

DeleteAccount(uid, confirmation) ==
  /\ users' = DeleteAccountResult(appointments, users, uid, confirmation).users
  /\ UNCHANGED <<appointments, notifications, now, reqs, errors, pets, events>>

\* the recover handler: an account that is active, or has no document, is
\* answered 400 ACCOUNT_ACTIVE; the recovery period of 30 days lies beyond
\* the times of the model
RecoverResult(U, uid) ==
  IF uid \notin DOMAIN U \/ U[uid].isActive
    THEN [status |-> 400, code |-> "ACCOUNT_ACTIVE", users |-> U]
    ELSE [status |-> 200, code |-> "ok",
          users |-> [U EXCEPT ![uid].isActive = TRUE]]

RecoverAccount(uid) ==
  /\ users' = RecoverResult(users, uid).users
  /\ UNCHANGED <<appointments, notifications, now, reqs, errors, pets, events>>

(***************************************************************************)
(* DELETE /pets/:petId (soft delete)                                       *)
(***************************************************************************)
\* the petId values tried: the pet, and an id of no pet
PetIds == Pets \cup {"p0"}

\* the checks of the handler, in their order: "ok" or the error code
DeletePetOutcome(A, P, uid, petId) ==
  IF petId \notin DOMAIN P THEN "PET_NOT_FOUND"
  ELSE IF P[petId].ownerId # uid THEN "ACCESS_DENIED"
  ELSE IF \E i \in DOMAIN A :
            A[i].petId = petId /\ A[i].status \in {"confirmed", "pending"}
    THEN "ACTIVE_APPOINTMENTS_EXIST"
  ELSE "ok"

\* petRef.update({isActive: false, deletedAt, updatedAt})
DeletePetResult(A, P, uid, petId) ==
  LET outcome == DeletePetOutcome(A, P, uid, petId)
  IN IF outcome # "ok"
       THEN [status |-> ErrorStatus(outcome), code |-> outcome, pets |-> P]
       ELSE [status |-> 200, code |-> "ok",
             pets |-> [P EXCEPT ![petId].isActive = FALSE]]

DeletePet(uid, petId) ==
  /\ pets' = DeletePetResult(appointments, pets, uid, petId).pets
  /\ UNCHANGED <<appointments, notifications, now, reqs, errors, users, events>>

(***************************************************************************)
(* exports.onUserDelete: the trigger that runs when an account is removed  *)
(* from Firebase Auth.  One batch deletes the user document, the user's    *)
(* pets and the appointments of which the user is the owner.               *)
(***************************************************************************)
\* the accounts whose removal is tried: the owner and a veterinarian
DeletedAccounts == {"o1", "v2"}

\* the documents of a collection that a batch does not delete
Remaining(C, deleted) == [k \in DOMAIN C \ deleted |-> C[k]]

\* .where('ownerId', '==', user.uid) on the pets or the appointments
OwnedBy(C, uid) == {k \in DOMAIN C : C[k].ownerId = uid}

\* the appointments collection after the batch.  The user either owns every
\* appointment of the model (o1, the one pet owner) or none, so that the
\* documents that remain keep their ids.
RemainingAppointments(A, uid) ==
  SelectSeq(A, LAMBDA a : a.ownerId # uid)

\* the account exists as long as its user document does
onUserDelete(uid) ==
  /\ uid \in DOMAIN users
  /\ users' = Remaining(users, {uid})
  /\ pets' = Remaining(pets, OwnedBy(pets, uid))
  /\ appointments' = RemainingAppointments(appointments, uid)
  /\ UNCHANGED <<notifications, now, reqs, errors, events>>

(***************************************************************************)
(* exports.onAppointmentCreate and exports.onAppointmentUpdate: Firestore  *)
(* runs them after a document of the appointments collection has been      *)
(* created or updated, each in its own invocation, some time after the     *)
(* write.  Both call sendAppointmentNotification of the notification       *)
(* service, which writes a document to the notifications collection        *)
(* (createNotification) and then sends an e-mail.                          *)
(***************************************************************************)
\* the change event of a write to appointments/{appointmentId}
CreateEvent(appointmentId) ==
  [type |-> "create", appointmentId |-> appointmentId, statusChanged |-> FALSE]

\* before.status !== after.status
UpdateEvent(appointmentId, before, after) ==
  [type |-> "update", appointmentId |-> appointmentId,
   statusChanged |-> before.status # after.status]

Raise(E, e) == E (+) SetToBag({e})

\* a request to the create route, with the event of its write
CreateRaising(uid, body) ==
  LET res == CreateResult(appointments, notifications, uid, body, now)
  IN /\ res.status = 201
     /\ NextId(appointments) <= MaxAppts
     /\ Notified < MaxNotifs
     /\ appointments' = res.appointments
     /\ notifications' = res.notifications
     /\ events' = Raise(events, CreateEvent(NextId(appointments)))
     /\ UNCHANGED <<now, reqs, errors, users, pets>>

\* a request to the status route, with the event of its write
UpdateStatusRaising(uid, appointmentId, status) ==
  LET res == StatusResult(appointments, notifications, uid, appointmentId,
                          status, now)
  IN /\ res.status = 200
     /\ Notified < MaxNotifs
     /\ appointments' = res.appointments
     /\ notifications' = res.notifications
     /\ events' = Raise(events,
                        UpdateEvent(appointmentId, appointments[appointmentId],
                                    res.appointments[appointmentId]))
     /\ UNCHANGED <<now, reqs, errors, users, pets>>

\* a request to the reschedule route, with the event of its write
RescheduleRaising(uid, appointmentId, newDateTime) ==
  LET res == RescheduleResult(appointments, notifications, uid, appointmentId,
                              newDateTime, now)
  IN /\ res.status = 200
     /\ Notified < MaxNotifs
     /\ appointments' = res.appointments
     /\ notifications' = res.notifications
     /\ events' = Raise(events,
                        UpdateEvent(appointmentId, appointments[appointmentId],
                                    res.appointments[appointmentId]))
     /\ UNCHANGED <<now, reqs, errors, users, pets>>

\* sendAppointmentNotification reads the appointment, its pet, its owner
\* and its veterinarian, and throws when one of them is missing
Readable(A, U, P, appointmentId) ==
  /\ appointmentId \in DOMAIN A
  /\ A[appointmentId].petId \in DOMAIN P
  /\ A[appointmentId].ownerId \in DOMAIN U
  /\ A[appointmentId].veterinarianId \in DOMAIN U

\* sendAppointmentNotification(appointmentId, notificationType): the
\* notifications collection after it; new_appointment is addressed to the
\* veterinarian, status_change to the owner
sendAppointmentNotification(A, N, U, P, appointmentId, notificationType) ==
  IF ~Readable(A, U, P, appointmentId) THEN N
  ELSE IF notificationType = "new_appointment"
    THEN AddNotification(N, Notification(A[appointmentId].veterinarianId,
                                         "new_appointment", appointmentId))
  ELSE IF notificationType = "status_change"
    THEN AddNotification(N, Notification(A[appointmentId].ownerId,
                                         "appointment_status_change",
                                         appointmentId))
  ELSE N

\* Firestore delivers the event e to the trigger
Delivered(e) == events (-) SetToBag({e})

onAppointmentCreate(e) ==
  /\ BagIn(e, events)
  /\ e.type = "create"
  /\ notifications' =
       sendAppointmentNotification(appointments, notifications, users, pets,
                                   e.appointmentId, "new_appointment")
  /\ events' = Delivered(e)
  /\ UNCHANGED <<appointments, now, reqs, errors, users, pets>>

onAppointmentUpdate(e) ==
  /\ BagIn(e, events)
  /\ e.type = "update"
  /\ notifications' =
       IF e.statusChanged
         THEN sendAppointmentNotification(appointments, notifications, users,
                                          pets, e.appointmentId, "status_change")
         ELSE notifications
  /\ events' = Delivered(e)
  /\ UNCHANGED <<appointments, now, reqs, errors, users, pets>>

(***************************************************************************)
(* The clock.                                                              *)
(***************************************************************************)
Tick ==
  /\ now < MaxNow
  /\ now' = now + 15
  /\ UNCHANGED <<appointments, notifications, reqs, errors, backend>>

Init ==
  /\ appointments = <<>>
  /\ notifications = EmptyBag
  /\ now = 585
  /\ reqs = [r \in Slots |-> Idle]
  /\ errors = 0
  /\ users = InitialUsers
  /\ pets = InitialPets
  /\ events = EmptyBag

Next ==
  \/ \E r \in CreateRequests : Create(r[1], r[2])
  \/ \E uid \in Callers, id \in AppointmentIds, status \in StatusInputs :
       UpdateStatus(uid, id, status)
  \/ \E uid \in Callers, id \in AppointmentIds, t \in Times \cup {NoValue} :
       Reschedule(uid, id, t)
  \/ \E v \in VetIds, date \in Dates : GetAvailability(v, date)
  \/ Tick

Spec == Init /\ [][Next]_vars

\* requests of the create and reschedule routes, interleaved at their awaits
NextRace ==
  \/ \E r \in Slots, c \in CreateRequests : CreateQuery(r, c[1], c[2])
  \/ \E r \in Slots : CreateWrite(r)
  \/ \E r \in Slots, uid \in Callers, id \in AppointmentIds,
        t \in Times \cup {NoValue} :
       RescheduleQuery(r, uid, id, t)
  \/ \E r \in Slots : RescheduleWrite(r)
  \/ \E r \in Slots : NotifyAndRespond(r)

SpecRace == Init /\ [][NextRace]_vars

\* the requests of Spec, and those whose notification write is rejected
NextFaulty ==
  \/ Next
  \/ \E r \in CreateRequests : CreateFaulty(r[1], r[2])
  \/ \E uid \in Callers, id \in AppointmentIds, status \in StatusInputs :
       UpdateStatusFaulty(uid, id, status)
  \/ \E uid \in Callers, id \in AppointmentIds, t \in Times \cup {NoValue} :
       RescheduleFaulty(uid, id, t)

SpecFaulty == Init /\ [][NextFaulty]_vars

\* the accepted requests of the appointment routes together with the
\* triggers that Firestore runs on their writes
NextTriggers ==
  \/ \E r \in CreateRequests : CreateRaising(r[1], r[2])
  \/ \E uid \in Callers, id \in AppointmentIds, status \in StatusInputs :
       UpdateStatusRaising(uid, id, status)
  \/ \E uid \in Callers, id \in AppointmentIds, t \in Times \cup {NoValue} :
       RescheduleRaising(uid, id, t)
  \/ \E e \in BagToSet(events) : onAppointmentCreate(e)
  \/ \E e \in BagToSet(events) : onAppointmentUpdate(e)
  \/ Tick

SpecTriggers == Init /\ [][NextTriggers]_vars

\* the requests to the three routes that write appointments
NextWrites ==
  \/ \E r \in CreateRequests : Create(r[1], r[2])
  \/ \E uid \in Callers, id \in AppointmentIds, status \in StatusInputs :
       UpdateStatus(uid, id, status)
  \/ \E uid \in Callers, id \in AppointmentIds, t \in Times \cup {NoValue} :
       Reschedule(uid, id, t)

\* the routes that write appointments together with the routes that
\* deactivate and reactivate an account, at one instant of the clock
NextAccounts ==
  \/ NextWrites
  \/ \E userId \in StatusTargets, isActive \in IsActiveInputs :
       UpdateUserStatus(userId, isActive)
  \/ \E uid \in AccountCallers, confirmation \in Confirmations :
       DeleteAccount(uid, confirmation)
  \/ \E uid \in AccountCallers : RecoverAccount(uid)

SpecAccounts == Init /\ [][NextAccounts]_vars

\* the routes that write appointments together with the soft delete of a
\* pet and the removal of an account, at one instant of the clock
NextRemovals ==
  \/ NextWrites
  \/ \E uid \in AccountCallers, petId \in PetIds : DeletePet(uid, petId)
  \/ \E uid \in DeletedAccounts : onUserDelete(uid)

SpecRemovals == Init /\ [][NextRemovals]_vars

(***************************************************************************)
(* The vocabulary of the properties.  A property about the answer to a     *)
(* request quantifies over the requests and reads the handler's result in  *)
(* the current state: every reachable state is one the request can         *)
(* arrive in.                                                              *)
(***************************************************************************)
\* an appointment that occupies its time
Active(a) == a.status \in {"pending", "confirmed"}

Terminal(a) == a.status \in {"cancelled", "completed", "no_show"}

\* half-open overlap of [s1, s1 + d1) and [s2, s2 + d2)
Overlap(s1, d1, s2, d2) == s1 < s2 + d2 /\ s2 < s1 + d1

\* one interval ends exactly when the other starts
BackToBack(s1, d1, s2, d2) == s1 + d1 = s2 \/ s2 + d2 = s1

\* the caller is neither the owner nor the veterinarian of the appointment
Stranger(a, uid) == a.ownerId # uid /\ a.veterinarianId # uid

\* the time, status and timestamps of an appointment
Schedule(a) ==
  <<a.dateTime, a.status, a.createdAt, a.updatedAt, a.confirmedAt,
    a.completedAt, a.cancelledAt, a.rescheduledAt>>

StatusAnswer(uid, id, status) ==
  StatusResult(appointments, notifications, uid, id, status, now)

RescheduleAnswer(uid, id, t) ==
  RescheduleResult(appointments, notifications, uid, id, t, now)

CreateAnswer(uid, body) ==
  CreateResult(appointments, notifications, uid, body, now)

(***************************************************************************)
(* C1..C10                                                                 *)
(***************************************************************************)
\* C1: no two distinct pending or confirmed appointments of the same
\* veterinarian have overlapping intervals [dateTime, dateTime + duration).
C1_NoDoubleBooking ==
  \A i, j \in DOMAIN appointments :
    (/\ i # j
     /\ appointments[i].veterinarianId = appointments[j].veterinarianId
     /\ Active(appointments[i])
     /\ Active(appointments[j]))
    => ~Overlap(appointments[i].dateTime, appointments[i].duration,
                appointments[j].dateTime, appointments[j].duration)

\* C2: of two create or reschedule requests for the same veterinarian with
\* overlapping candidate intervals, whose conflict queries both ran before
\* either wrote, at most one has persisted its booking.
C2_AtMostOneRacerPersists ==
  \A r, q \in Slots :
    (/\ r # q
     /\ q \in reqs[r].raced
     /\ reqs[r].veterinarianId = reqs[q].veterinarianId
     /\ Overlap(reqs[r].dateTime, reqs[r].duration,
                reqs[q].dateTime, reqs[q].duration))
    => ~(/\ reqs[r].pc = "notify"
         /\ reqs[q].pc = "notify"
         /\ reqs[r].appointmentId # reqs[q].appointmentId)

\* C3: a create request that passes validation is answered 409 TIME_CONFLICT
\* exactly when a pending or confirmed appointment of the same veterinarian
\* overlaps the candidate interval.
C3_ConflictIffOverlap ==
  \A c \in CreateRequests :
    CreateValidation(c[1], c[2], now) = "ok"
    => ((/\ CreateAnswer(c[1], c[2]).status = 409
         /\ CreateAnswer(c[1], c[2]).code = "TIME_CONFLICT")
        <=> \E i \in DOMAIN appointments :
              /\ appointments[i].veterinarianId = c[2].veterinarianId
              /\ Active(appointments[i])
              /\ Overlap(c[2].dateTime, EffectiveDuration(c[2].duration),
                         appointments[i].dateTime, appointments[i].duration))

\* C4: every status-change request on a cancelled, completed or no_show
\* appointment is answered with an error and leaves the appointment's status
\* unchanged.
C4_TerminalRejectsStatusChange ==
  \A uid \in Users, id \in DOMAIN appointments, status \in validStatuses :
    Terminal(appointments[id])
    => /\ StatusAnswer(uid, id, status).status >= 400
       /\ StatusAnswer(uid, id, status).appointments[id].status
            = appointments[id].status

\* C5: once an appointment is cancelled, completed or no_show, no reschedule,
\* by whichever caller, changes its status again (the status route is the
\* subject of C4).
C5_TerminalIsFinal ==
  [][\A uid \in Users, id \in DOMAIN appointments, t \in Times \cup {NoValue} :
       (Terminal(appointments[id]) /\ Reschedule(uid, id, t))
       => appointments'[id].status = appointments[id].status
    ]_vars

\* C6: a status change to confirmed, completed or no_show succeeds only for
\* the veterinarian on the appointment; any other caller is answered 403 and
\* nothing is written.
C6_VetOnlyTransitions ==
  \A uid \in Users, id \in DOMAIN appointments,
     status \in {"confirmed", "completed", "no_show"} :
    /\ StatusAnswer(uid, id, status).status = 200
         => uid = appointments[id].veterinarianId
    /\ uid # appointments[id].veterinarianId
         => /\ StatusAnswer(uid, id, status).status = 403
            /\ StatusAnswer(uid, id, status).appointments = appointments
            /\ StatusAnswer(uid, id, status).notifications = notifications

\* the owner of a stored appointment who asks to confirm it is refused, and
\* its veterinarian who asks the same is not
C6_Witness ==
  \E id \in DOMAIN appointments :
    /\ appointments[id].ownerId # appointments[id].veterinarianId
    /\ StatusAnswer(appointments[id].ownerId, id, "confirmed").code
         = "VET_ONLY_ACTION"
    /\ StatusAnswer(appointments[id].veterinarianId, id, "confirmed").status = 200

\* C7, as claimed: every cancel and every reschedule request of a caller who
\* is neither the owner nor the veterinarian is answered 403 and leaves the
\* appointment's time, status and timestamps unchanged.
C7_StrangerAlways403 ==
  \A uid \in Users, id \in DOMAIN appointments :
    Stranger(appointments[id], uid)
    => /\ StatusAnswer(uid, id, "cancelled").status = 403
       /\ Schedule(StatusAnswer(uid, id, "cancelled").appointments[id])
            = Schedule(appointments[id])
       /\ \A t \in Times \cup {NoValue} :
            /\ RescheduleAnswer(uid, id, t).status = 403
            /\ Schedule(RescheduleAnswer(uid, id, t).appointments[id])
                 = Schedule(appointments[id])

\* C7, amended: such a caller never modifies the appointment; a cancel and a
\* reschedule that carries a newDateTime are answered 403, and a reschedule
\* without newDateTime is answered 400 MISSING_DATETIME, the check the
\* handler makes before it reads the appointment.
C7_StrangerNeverModifies ==
  \A uid \in Users, id \in DOMAIN appointments :
    Stranger(appointments[id], uid)
    => /\ StatusAnswer(uid, id, "cancelled").status = 403
       /\ StatusAnswer(uid, id, "cancelled").appointments = appointments
       /\ \A t \in Times \cup {NoValue} :
            /\ IF t = NoValue
                 THEN /\ RescheduleAnswer(uid, id, t).status = 400
                      /\ RescheduleAnswer(uid, id, t).code = "MISSING_DATETIME"
                 ELSE RescheduleAnswer(uid, id, t).status = 403
            /\ RescheduleAnswer(uid, id, t).appointments = appointments

\* a veterinarian who is not on a stored appointment asks to move it to a
\* free future time, which its owner may do
C7_Witness ==
  \E id \in DOMAIN appointments, uid \in Users, t \in Times :
    /\ Stranger(appointments[id], uid)
    /\ RescheduleAnswer(uid, id, t).code = "ACCESS_DENIED"
    /\ RescheduleAnswer(appointments[id].ownerId, id, t).status = 200

\* C8: rescheduling a pending or confirmed appointment to its own current
\* dateTime is never answered 409 TIME_CONFLICT.  Stated for the stores
\* whose appointments all have a positive duration.
C8_SelfRescheduleNoConflict ==
  \A uid \in Users, id \in DOMAIN appointments :
    (/\ \A i \in DOMAIN appointments : appointments[i].duration > 0
     /\ Active(appointments[id]))
    => RescheduleAnswer(uid, id, appointments[id].dateTime).status # 409

\* C9: for a booked appointment A and a candidate B of the same veterinarian,
\* B is rejected as conflicting with A booked exactly when A would be
\* rejected as conflicting with B booked.
C9_ConflictSymmetric ==
  \A i \in DOMAIN appointments, t \in Times, d \in Durations :
    LET A == appointments[i]
        bodyA == GoodBody(A.veterinarianId, A.dateTime, A.duration)
        bodyB == GoodBody(A.veterinarianId, t, d)
        B == NewAppointment(A.ownerId, bodyB, now)
    IN Active(A)
       => ((CreateConflicts(<<A>>, bodyB) # {})
           <=> (CreateConflicts(<<B>>, bodyA) # {}))

\* C10: a candidate that is back to back with every pending or confirmed
\* booking of the veterinarian (it starts exactly when the booking ends, or
\* ends exactly when the booking starts) is never answered 409, by create
\* or by reschedule.
C10_BackToBackAccepted ==
  /\ \A c \in CreateRequests :
       (\A i \in DOMAIN appointments :
          (/\ appointments[i].veterinarianId = c[2].veterinarianId
           /\ Active(appointments[i]))
          => BackToBack(appointments[i].dateTime, appointments[i].duration,
                        c[2].dateTime, EffectiveDuration(c[2].duration)))
       => CreateAnswer(c[1], c[2]).status # 409
  /\ \A uid \in Users, id \in DOMAIN appointments, t \in Times :
       (\A i \in DOMAIN appointments :
          (/\ i # id
           /\ appointments[i].veterinarianId = appointments[id].veterinarianId
           /\ Active(appointments[i]))
          => BackToBack(appointments[i].dateTime, appointments[i].duration,
                        t, appointments[id].duration))
       => RescheduleAnswer(uid, id, t).status # 409

(***************************************************************************)
(* C11..C20                                                                *)
(***************************************************************************)
\* C11: a reschedule of a confirmed appointment that is answered 200 leaves
\* the appointment pending at the new time, with rescheduledAt set and with
\* the confirmedAt it had.
C11_RescheduleKeepsConfirmedAt ==
  \A uid \in Users, id \in DOMAIN appointments, t \in Times :
    (/\ appointments[id].status = "confirmed"
     /\ RescheduleAnswer(uid, id, t).status = 200)
    => LET after == RescheduleAnswer(uid, id, t).appointments[id]
       IN /\ after.status = "pending"
          /\ after.dateTime = t
          /\ after.rescheduledAt = now
          /\ after.rescheduledAt # Unset
          /\ after.confirmedAt = appointments[id].confirmedAt
          /\ after.confirmedAt # Unset

\* an appointment that was confirmed and then moved: pending again, with
\* both timestamps
C11_Witness ==
  \E id \in DOMAIN appointments :
    /\ appointments[id].status = "pending"
    /\ appointments[id].confirmedAt # Unset
    /\ appointments[id].rescheduledAt # Unset
    /\ appointments[id].rescheduledAt >= appointments[id].confirmedAt

\* the instant at which the dateTime of an appointment was last written
WrittenAt(a) == IF a.rescheduledAt # Unset THEN a.rescheduledAt ELSE a.createdAt

\* C12: the dateTime of every stored appointment was later than the clock
\* when it was written; a create or reschedule request for a time t <= now
\* is never accepted and writes nothing, and one that passes the checks made
\* before the date check is answered 400 INVALID_DATE.
C12_FutureWhenWritten ==
  /\ \A i \in DOMAIN appointments :
       appointments[i].dateTime > WrittenAt(appointments[i])
  /\ \A c \in CreateRequests :
       (c[2].dateTime # NoValue /\ c[2].dateTime <= now)
       => /\ CreateAnswer(c[1], c[2]).status >= 400
          /\ CreateAnswer(c[1], c[2]).appointments = appointments
          /\ CreateAnswer(c[1], c[2]).notifications = notifications
          /\ CreateValidation(c[1], c[2], c[2].dateTime - 1) = "ok"
               => /\ CreateAnswer(c[1], c[2]).status = 400
                  /\ CreateAnswer(c[1], c[2]).code = "INVALID_DATE"
  /\ \A uid \in Users, id \in DOMAIN appointments, t \in Times :
       t <= now
       => /\ RescheduleAnswer(uid, id, t).status >= 400
          /\ RescheduleAnswer(uid, id, t).appointments = appointments
          /\ RescheduleAnswer(uid, id, t).notifications = notifications
          /\ RescheduleValidation(appointments, uid, id, t, t - 1) = "ok"
               => /\ RescheduleAnswer(uid, id, t).status = 400
                  /\ RescheduleAnswer(uid, id, t).code = "INVALID_DATE"

\* the clock stands at 10:00 and an appointment is stored: a valid create for
\* 10:00 and the owner's reschedule to 10:00 are both refused for their date
C12_Witness ==
  /\ now = 600
  /\ CreateAnswer("o1", GoodBody("v1", 600, NoValue)).code = "INVALID_DATE"
  /\ \E id \in DOMAIN appointments :
       RescheduleAnswer(appointments[id].ownerId, id, 600).code = "INVALID_DATE"

\* C13: every stored appointment has a duration greater than 0.
C13_PositiveDuration ==
  \A i \in DOMAIN appointments : appointments[i].duration > 0

AvailabilityAnswer(veterinarianId, date) ==
  AvailabilityResult(appointments, veterinarianId, date, now)

\* C14: every slot the availability query returns lies in 09:00 <= t < 17:00
\* of the requested date and is later than the clock.
C14_SlotsInWorkHoursAndFuture ==
  \A v \in VetIds, date \in Dates :
    LET slots == AvailabilityAnswer(v, date).availableSlots
    IN \A k \in DOMAIN slots :
         /\ date + 9 * 60 <= slots[k]
         /\ slots[k] < date + 17 * 60
         /\ slots[k] > now

\* at 10:00, with an appointment stored, the query for today offers slots,
\* the first of them after 10:00
C14_Witness ==
  /\ now = 600
  /\ appointments # <<>>
  /\ AvailabilityAnswer("v1", Today).status = 200
  /\ AvailabilityAnswer("v1", Today).availableSlots # <<>>
  /\ AvailabilityAnswer("v1", Today).availableSlots[1] > 600

\* C15: the availability query returns no slot t whose interval [t, t + 30)
\* overlaps the interval of a pending or confirmed booking of the
\* veterinarian.  Stated for the stores whose appointments all have a
\* positive duration.
C15_OverlappingSlotsOmitted ==
  \A v \in VetIds, date \in Dates :
    LET slots == AvailabilityAnswer(v, date).availableSlots
    IN (\A i \in DOMAIN appointments : appointments[i].duration > 0)
       => \A k \in DOMAIN slots, i \in DOMAIN appointments :
            (appointments[i].veterinarianId = v /\ Active(appointments[i]))
            => ~Overlap(slots[k], 30,
                        appointments[i].dateTime, appointments[i].duration)

\* the pending or confirmed bookings of veterinarian v on the day of date
BookingsOn(v, date) ==
  {i \in DOMAIN appointments :
     /\ appointments[i].veterinarianId = v
     /\ Active(appointments[i])
     /\ date <= appointments[i].dateTime
     /\ appointments[i].dateTime < date + 24 * 60}

\* C16: with the clock before 09:00 of the requested day and one pending or
\* confirmed booking of the veterinarian on that day, of 30 minutes at
\* 09:30, the query returns 09:00, 10:00, 10:30, ..., 16:30 in this order.
C16_FifteenSlots ==
  \A v \in VetIds, date \in {Today, Tomorrow} :
    (/\ now < date + 9 * 60
     /\ Cardinality(BookingsOn(v, date)) = 1
     /\ \A i \in BookingsOn(v, date) :
          /\ appointments[i].dateTime = date + 9 * 60 + 30
          /\ appointments[i].duration = 30)
    => /\ AvailabilityAnswer(v, date).status = 200
       /\ AvailabilityAnswer(v, date).availableSlots
            = [k \in 1..15 |->
                 IF k = 1 THEN date + 9 * 60 ELSE date + 9 * 60 + 30 * k]

\* the day before, v1 has one booking at 09:30 tomorrow, and other bookings
\* today
C16_Witness ==
  /\ BookingsOn("v1", Today) # {}
  /\ \E i \in DOMAIN appointments :
       /\ BookingsOn("v1", Tomorrow) = {i}
       /\ appointments[i].dateTime = Tomorrow + 570
       /\ appointments[i].duration = 30
  /\ Len(AvailabilityAnswer("v1", Tomorrow).availableSlots) = 15

\* the store without the appointments of other veterinarians than v and
\* without those that are cancelled, completed or no_show; keep stays
Blocking(A, v, keep) ==
  [i \in {j \in DOMAIN A :
            j \in keep \/ (A[j].veterinarianId = v /\ Active(A[j]))}
     |-> A[i]]

\* C17: appointments that are cancelled, completed or no_show, and
\* appointments of another veterinarian, change the outcome of no create and
\* of no reschedule, and the answer of no availability query.
C17_OnlyActiveSameVetBlocks ==
  /\ \A c \in CreateRequests :
       CreateOutcome(appointments, c[1], c[2], now)
         = CreateOutcome(Blocking(appointments, c[2].veterinarianId, {}),
                         c[1], c[2], now)
  /\ \A uid \in Users, id \in DOMAIN appointments, t \in Times :
       RescheduleOutcome(appointments, uid, id, t, now)
         = RescheduleOutcome(
             Blocking(appointments, appointments[id].veterinarianId, {id}),
             uid, id, t, now)
  /\ \A v \in VetIds, date \in Dates :
       AvailabilityAnswer(v, date)
         = AvailabilityResult(Blocking(appointments, v, {}), v, date, now)

\* v1 has a cancelled, completed or no_show appointment at 10:00 and v2 a
\* pending or confirmed one at 10:00; a create for v1 at 10:00 is accepted
\* and 10:00 is the first slot offered for v1
C17_Witness ==
  /\ \E i \in DOMAIN appointments :
       /\ appointments[i].veterinarianId = "v1"
       /\ appointments[i].dateTime = 600
       /\ Terminal(appointments[i])
  /\ \E j \in DOMAIN appointments :
       /\ appointments[j].veterinarianId = "v2"
       /\ appointments[j].dateTime = 600
       /\ Active(appointments[j])
  /\ CreateAnswer("o1", GoodBody("v1", 600, NoValue)).status = 201
  /\ AvailabilityAnswer("v1", Today).availableSlots[1] = 600

\* a create request that carries the required fields, for a pet of the
\* caller, naming a veterinarian who does not exist, is not a veterinarian,
\* or is not approved
NamesUnavailableVet(uid, body) ==
  /\ body.petId \in DOMAIN pets /\ pets[body.petId].ownerId = uid
  /\ body.veterinarianId # "" /\ body.dateTime # NoValue
  /\ body.type # "" /\ body.reason # ""
  /\ \/ body.veterinarianId \notin DOMAIN users
     \/ users[body.veterinarianId].role # "veterinarian"
     \/ users[body.veterinarianId].vetApplicationStatus # "approved"

\* C18, as claimed: such a request is answered 403 and nothing is persisted.
C18_UnavailableVet403 ==
  \A c \in CreateRequests :
    NamesUnavailableVet(c[1], c[2])
    => /\ CreateAnswer(c[1], c[2]).status = 403
       /\ CreateAnswer(c[1], c[2]).appointments = appointments
       /\ CreateAnswer(c[1], c[2]).notifications = notifications

\* C18, amended: such a request is answered 400 VET_NOT_AVAILABLE and
\* nothing is persisted.
C18_UnavailableVet400 ==
  \A c \in CreateRequests :
    NamesUnavailableVet(c[1], c[2])
    => /\ CreateAnswer(c[1], c[2]).status = 400
       /\ CreateAnswer(c[1], c[2]).code = "VET_NOT_AVAILABLE"
       /\ CreateAnswer(c[1], c[2]).appointments = appointments
       /\ CreateAnswer(c[1], c[2]).notifications = notifications

\* with an appointment stored, the requests for the applicant v3 and for the
\* unknown v0 are refused, and the same request for v2 is not
C18_Witness ==
  /\ appointments # <<>>
  /\ CreateAnswer("o1", GoodBody("v3", 600, NoValue)).code = "VET_NOT_AVAILABLE"
  /\ CreateAnswer("o1", GoodBody("v0", 600, NoValue)).code = "VET_NOT_AVAILABLE"
  /\ CreateAnswer("o1", GoodBody("v2", 600, NoValue)).status = 201

\* C19: the availability query for a user whose role is veterinarian and
\* whose application is not approved is answered 404, without slots.
C19_UnapprovedVet404 ==
  \A v \in Users, date \in {Today, Tomorrow} :
    (/\ users[v].role = "veterinarian"
     /\ users[v].vetApplicationStatus # "approved")
    => /\ AvailabilityAnswer(v, date).status = 404
       /\ AvailabilityAnswer(v, date).availableSlots = <<>>

\* C20: a request whose notification write is rejected is answered as the
\* same request whose notification write succeeds (201 or 200), and the
\* appointment it wrote stays written.
C20_NotificationFailureSwallowed ==
  /\ \A c \in CreateRequests :
       CreateAnswer(c[1], c[2]).status = 201
       => /\ CreateNotificationFails(appointments, notifications,
                                     c[1], c[2], now).status = 201
          /\ CreateNotificationFails(appointments, notifications,
                                     c[1], c[2], now).appointments
               = CreateAnswer(c[1], c[2]).appointments
  /\ \A uid \in Users, id \in DOMAIN appointments, status \in validStatuses :
       StatusAnswer(uid, id, status).status = 200
       => /\ StatusNotificationFails(appointments, notifications,
                                     uid, id, status, now).status = 200
          /\ StatusNotificationFails(appointments, notifications,
                                     uid, id, status, now).appointments
               = StatusAnswer(uid, id, status).appointments
  /\ \A uid \in Users, id \in DOMAIN appointments, t \in Times :
       RescheduleAnswer(uid, id, t).status = 200
       => /\ RescheduleNotificationFails(appointments, notifications,
                                         uid, id, t, now).status = 200
          /\ RescheduleNotificationFails(appointments, notifications,
                                         uid, id, t, now).appointments
               = RescheduleAnswer(uid, id, t).appointments

(***************************************************************************)
(* C21..C30                                                                *)
(***************************************************************************)
\* C21: appointment records are never physically removed: no step of the
\* backend, the removal of an account included, takes an appointment that
\* is in the store out of it.
C21_NeverRemoved ==
  [][\A id \in DOMAIN appointments : id \in DOMAIN appointments']_vars

\* C22: a status-change request whose status is none of confirmed,
\* cancelled, completed, no_show (pending among them) is answered 400
\* INVALID_STATUS whether or not the appointment exists and whoever calls,
\* and writes nothing; and a step in which the status of a stored
\* appointment becomes pending is a reschedule of that appointment.
C22_InvalidStatusRejected ==
  /\ [](\A uid \in Users, id \in AppointmentIds, status \in StatusInputs :
          status \notin {"confirmed", "cancelled", "completed", "no_show"}
          => /\ StatusAnswer(uid, id, status).status = 400
             /\ StatusAnswer(uid, id, status).code = "INVALID_STATUS"
             /\ StatusAnswer(uid, id, status).appointments = appointments
             /\ StatusAnswer(uid, id, status).notifications = notifications)
  /\ [][\A id \in DOMAIN appointments :
          (/\ id \in DOMAIN appointments'
           /\ appointments[id].status # "pending"
           /\ appointments'[id].status = "pending")
          => \E uid \in Callers, t \in Times : Reschedule(uid, id, t)]_vars

\* a confirmed appointment whose veterinarian asks for the status pending,
\* and an id of no appointment for which pending is asked
C22_Witness ==
  /\ \E id \in DOMAIN appointments :
       /\ appointments[id].status = "confirmed"
       /\ StatusAnswer(appointments[id].veterinarianId, id, "pending").code
            = "INVALID_STATUS"
  /\ \E id \in AppointmentIds :
       /\ id \notin DOMAIN appointments
       /\ StatusAnswer("v1", id, "pending").code = "INVALID_STATUS"

\* C23: a create, status-change or reschedule request that is answered 400,
\* 403, 404 or 409 leaves the appointments and the notifications as they
\* were.
Refusals == {400, 403, 404, 409}

C23_RefusalWritesNothing ==
  /\ \A c \in CreateRequests :
       CreateAnswer(c[1], c[2]).status \in Refusals
       => /\ CreateAnswer(c[1], c[2]).appointments = appointments
          /\ CreateAnswer(c[1], c[2]).notifications = notifications
  /\ \A uid \in Users, id \in AppointmentIds, status \in StatusInputs :
       StatusAnswer(uid, id, status).status \in Refusals
       => /\ StatusAnswer(uid, id, status).appointments = appointments
          /\ StatusAnswer(uid, id, status).notifications = notifications
  /\ \A uid \in Users, id \in AppointmentIds, t \in Times \cup {NoValue} :
       RescheduleAnswer(uid, id, t).status \in Refusals
       => /\ RescheduleAnswer(uid, id, t).appointments = appointments
          /\ RescheduleAnswer(uid, id, t).notifications = notifications

\* a store with an appointment in which a create is answered 409, a status
\* change 403 and another 404, and a reschedule 400
C23_Witness ==
  /\ appointments # <<>>
  /\ \E c \in CreateRequests : CreateAnswer(c[1], c[2]).status = 409
  /\ \E uid \in Users, id \in DOMAIN appointments :
       StatusAnswer(uid, id, "confirmed").status = 403
  /\ \E id \in AppointmentIds : StatusAnswer("v1", id, "confirmed").status = 404
  /\ \E uid \in Users, id \in DOMAIN appointments, t \in Times :
       RescheduleAnswer(uid, id, t).code = "INVALID_DATE"

\* C24: a successful reschedule changes, of the appointment, only dateTime,
\* status, rescheduledAt and updatedAt, and changes no other appointment;
\* and a reschedule request that passes validation is answered 409 exactly
\* when another pending or confirmed appointment of the same veterinarian
\* starts in [newDateTime, newDateTime + the stored duration).
C24_RescheduleFrame ==
  \A uid \in Users, id \in DOMAIN appointments, t \in Times :
    LET old == appointments[id]
        answer == RescheduleAnswer(uid, id, t)
    IN /\ answer.status = 200
            => /\ answer.appointments[id] =
                    [old EXCEPT
                       !.dateTime = answer.appointments[id].dateTime,
                       !.status = answer.appointments[id].status,
                       !.rescheduledAt = answer.appointments[id].rescheduledAt,
                       !.updatedAt = answer.appointments[id].updatedAt]
               /\ answer.appointments[id].duration = old.duration
               /\ answer.appointments[id].ownerId = old.ownerId
               /\ answer.appointments[id].petId = old.petId
               /\ answer.appointments[id].veterinarianId = old.veterinarianId
               /\ DOMAIN answer.appointments = DOMAIN appointments
               /\ \A j \in DOMAIN appointments \ {id} :
                    answer.appointments[j] = appointments[j]
       /\ RescheduleValidation(appointments, uid, id, t, now) = "ok"
            => (answer.status = 409
                <=> \E j \in DOMAIN appointments \ {id} :
                      /\ appointments[j].veterinarianId = old.veterinarianId
                      /\ Active(appointments[j])
                      /\ appointments[j].dateTime >= t
                      /\ appointments[j].dateTime < t + old.duration)

\* an appointment of a duration other than the default has been
\* rescheduled, and can be rescheduled again to a time less than the
\* default duration before another booking of its veterinarian
C24_Witness ==
  \E id \in DOMAIN appointments, j \in DOMAIN appointments, t \in Times :
    /\ j # id
    /\ appointments[id].rescheduledAt # Unset
    /\ appointments[id].duration # DefaultDuration
    /\ appointments[j].veterinarianId = appointments[id].veterinarianId
    /\ Active(appointments[j])
    /\ appointments[j].dateTime >= t
    /\ appointments[j].dateTime < t + DefaultDuration
    /\ RescheduleAnswer(appointments[id].ownerId, id, t).status = 200

\* the start times 09:00, 09:30, ..., 16:30 of the slots of a day
SlotsOf(date) == {date + 9 * 60 + 30 * k : k \in 0..15}

\* C25: in the answer of the availability query, a pending or confirmed
\* booking of the veterinarian that starts at a slot t of the requested day
\* and is stored with duration d removes every slot s with t <= s < t + d.
C25_BookingBlocksItsDuration ==
  \A v \in VetIds, date \in {Today, Tomorrow} :
    LET answer == AvailabilityAnswer(v, date)
    IN answer.status = 200
       => \A i \in BookingsOn(v, date), s \in SlotsOf(date) :
            (/\ appointments[i].dateTime \in SlotsOf(date)
             /\ appointments[i].dateTime <= s
             /\ s < appointments[i].dateTime + appointments[i].duration)
            => \A k \in DOMAIN answer.availableSlots :
                 answer.availableSlots[k] # s

\* before 10:00, v1 has a booking of 60 minutes at 10:00: the query offers
\* 11:00 and neither 10:00 nor 10:30
C25_Witness ==
  LET slots == AvailabilityAnswer("v1", Today).availableSlots
  IN /\ now < 600
     /\ \E i \in BookingsOn("v1", Today) :
          appointments[i].dateTime = 600 /\ appointments[i].duration = 60
     /\ \E k \in DOMAIN slots : slots[k] = 660
     /\ \A k \in DOMAIN slots : slots[k] # 600 /\ slots[k] # 630

\* C26: if the availability query offers slot t for a veterinarian, a valid
\* create request of the owner for that veterinarian at t with the default
\* duration, made in the same state, is not answered 409, and the interval
\* [t, t + 30) overlaps no pending or confirmed booking of the veterinarian.
C26_OfferedSlotIsBookable ==
  \A v \in VetIds, date \in {Today, Tomorrow} :
    LET slots == AvailabilityAnswer(v, date).availableSlots
    IN \A k \in DOMAIN slots :
         CreateValidation("o1", GoodBody(v, slots[k], NoValue), now) = "ok"
         => /\ CreateAnswer("o1", GoodBody(v, slots[k], NoValue)).status # 409
            /\ \A i \in DOMAIN appointments :
                 (appointments[i].veterinarianId = v /\ Active(appointments[i]))
                 => ~Overlap(slots[k], DefaultDuration,
                             appointments[i].dateTime, appointments[i].duration)

\* C26 for the stores whose bookings all start at a slot and have a
\* positive duration
C26_OfferedSlotIsBookableOnSlots ==
  (\A i \in DOMAIN appointments :
     /\ appointments[i].duration > 0
     /\ \E date \in {Today, Tomorrow} : appointments[i].dateTime \in SlotsOf(date))
  => C26_OfferedSlotIsBookable

\* the users an appointment references
Parties(a) == {a.ownerId, a.veterinarianId}

\* C27: no pending or confirmed appointment references, as owner or as
\* veterinarian, a user whose account is inactive.
C27_NoActiveAppointmentOfInactiveUser ==
  \A i \in DOMAIN appointments :
    Active(appointments[i])
    => \A u \in Parties(appointments[i]) :
         u \in DOMAIN users => users[u].isActive

\* C28: no pending or confirmed appointment references a pet that is soft
\* deleted (isActive false).
C28_NoActiveAppointmentOfDeletedPet ==
  \A i \in DOMAIN appointments :
    Active(appointments[i])
    => (appointments[i].petId \in DOMAIN pets
        => pets[appointments[i].petId].isActive)

\* the part of C28 about the delete route alone: while a pending or
\* confirmed appointment references the pet, its owner's delete request is
\* answered 400 ACTIVE_APPOINTMENTS_EXIST and changes nothing
C28_DeleteRefusedWhileBooked ==
  \A i \in DOMAIN appointments :
    (Active(appointments[i]) /\ appointments[i].petId \in DOMAIN pets)
    => LET res == DeletePetResult(appointments, pets,
                                  pets[appointments[i].petId].ownerId,
                                  appointments[i].petId)
       IN /\ res.status = 400
          /\ res.code = "ACTIVE_APPOINTMENTS_EXIST"
          /\ res.pets = pets

\* C29: an appointment with status confirmed has confirmedAt set, one with
\* status completed has completedAt set, and one with status cancelled has
\* cancelledAt set, whether a party or the deactivation of an account
\* cancelled it.
C29_TimestampOfStatus ==
  \A i \in DOMAIN appointments :
    /\ appointments[i].status = "confirmed"
         => appointments[i].confirmedAt # Unset
    /\ appointments[i].status = "completed"
         => appointments[i].completedAt # Unset
    /\ appointments[i].status = "cancelled"
         => appointments[i].cancelledAt # Unset

\* one appointment completed by its veterinarian, and another cancelled
\* without a notification, that is by the deactivation of an account
C29_Witness ==
  \E i \in DOMAIN appointments, j \in DOMAIN appointments :
    /\ appointments[i].status = "completed"
    /\ appointments[i].completedAt # Unset
    /\ appointments[j].status = "cancelled"
    /\ appointments[j].cancelledAt # Unset
    /\ \A n \in BagToSet(notifications) :
         ~(n.type = "appointment_status_change" /\ n.appointmentId = j)

\* the party of the appointment a who is not uid
OtherParty(a, uid) ==
  IF uid = a.ownerId THEN a.veterinarianId ELSE a.ownerId

\* every accepted request adds one notification, addressed to the party who
\* did not make the request
C30_HandlersNotifyOtherParty ==
  /\ \A r \in CreateRequests :
       LET res == CreateAnswer(r[1], r[2])
       IN res.status = 201 =>
            res.notifications =
              AddNotification(notifications,
                              Notification(r[2].veterinarianId,
                                           "new_appointment",
                                           NextId(appointments)))
  /\ \A uid \in Callers, id \in AppointmentIds, status \in StatusInputs :
       LET res == StatusAnswer(uid, id, status)
       IN res.status = 200 =>
            res.notifications =
              AddNotification(notifications,
                              Notification(OtherParty(appointments[id], uid),
                                           "appointment_status_change", id))
  /\ \A uid \in Callers, id \in AppointmentIds, t \in Times :
       LET res == RescheduleAnswer(uid, id, t)
       IN res.status = 200 =>
            /\ BagCardinality(res.notifications) =
                 BagCardinality(notifications) + 1
            /\ \E n \in BagToSet(res.notifications) :
                 /\ n.userId = OtherParty(appointments[id], uid)
                 /\ n.appointmentId = id
                 /\ res.notifications = AddNotification(notifications, n)

\* C30: each successful lifecycle event produces exactly one notification,
\* addressed to the other party: the handler of an accepted request adds one
\* notification to the party who did not make the request, and the delivery
\* of a change event to a Firestore trigger adds none.
C30_OneNotificationPerEvent ==
  /\ []C30_HandlersNotifyOtherParty
  /\ [][BagCardinality(events') < BagCardinality(events)
          => notifications' = notifications]_vars

=============================================================================
